---- MODULE Spec2Model ----
(***************************************************************************)
(* Model of scripts/dashboard-backend.py: the dashboard data aggregator.   *)
(* Every fetcher is a pure function of its external inputs (credential     *)
(* files, HTTP responses, the board file, the clock); the assembler        *)
(* generate_dashboard_data is a sequential process over them.              *)
(*                                                                         *)
(* Python values are modelled as follows.                                  *)
(*   dict            record; an optional key is a key absent from DOMAIN   *)
(*   list            sequence                                              *)
(*   str             sequence of one-character strings where the code      *)
(*                   looks inside the text, a TLA+ string otherwise        *)
(*   datetime        [t |-> minutes since 0001-01-01 minus one day,        *)
(*                    tz |-> "naive" or "aware"]                           *)
(*   a call          [exc |-> FALSE, val |-> v] when it returns v,         *)
(*                   [exc |-> TRUE] when an exception leaves it            *)
(***************************************************************************)
EXTENDS Integers, Sequences, FiniteSets, TLC

VARIABLES pc, clock,
          files, response, deal_revenue,
          token_result, sheet_response, financial_data,
          board_file, tasks,
          task, assignee,
          asana_response, random_value, agents,
          activities, dashboard_data, output_file

vars == <<pc, clock, files, response, deal_revenue, token_result,
          sheet_response, financial_data, board_file, tasks, task, assignee,
          asana_response, random_value, agents, activities, dashboard_data,
          output_file>>

(***************************************************************************)
(* Call results and dict access.                                           *)
(***************************************************************************)
\* the value of a dict variable before its first assignment
Unset == [unset |-> TRUE]

Return(v) == [exc |-> FALSE, val |-> v]

Raise == [exc |-> TRUE]

\* d.get(k, default)
Get(d, k, default) == IF k \in DOMAIN d THEN d[k] ELSE default

\* the empty dict
EmptyDict == <<>>

(***************************************************************************)
(* Values of the variables a specification does not use.                   *)
(***************************************************************************)
IdleDeal == files = Unset /\ response = Unset /\ deal_revenue = Unset

IdleTiller == token_result = "" /\ sheet_response = Unset /\ financial_data = Unset

IdleTasks == board_file = Unset /\ tasks = <<>>

IdleAssignee == task = Unset /\ assignee = ""

IdleAgents == asana_response = Unset /\ random_value = 0 /\ agents = Unset

IdleSnapshot == activities = <<>> /\ dashboard_data = Unset /\ output_file = Unset

(***************************************************************************)
(* datetime: the proleptic Gregorian calendar of the standard library.     *)
(***************************************************************************)
IsLeap(y) == (y % 4 = 0) /\ ((y % 100 # 0) \/ (y % 400 = 0))

DaysInMonth(y, m) ==
    IF m = 2 THEN (IF IsLeap(y) THEN 29 ELSE 28)
    ELSE IF m \in {4, 6, 9, 11} THEN 30 ELSE 31

DaysBeforeYear(y) ==
    365 * (y - 1) + ((y - 1) \div 4) - ((y - 1) \div 100) + ((y - 1) \div 400)

RECURSIVE DaysBeforeMonth(_, _)
DaysBeforeMonth(y, m) ==
    IF m = 1 THEN 0 ELSE DaysBeforeMonth(y, m - 1) + DaysInMonth(y, m - 1)

\* date(y, m, d).toordinal()
ToOrdinal(y, m, d) == DaysBeforeYear(y) + DaysBeforeMonth(y, m) + d

MinutesPerDay == 24 * 60

\* datetime(y, m, d, hh, mi) as minutes
At(y, m, d, hh, mi) == ToOrdinal(y, m, d) * MinutesPerDay + hh * 60 + mi

ValidDate(y, m, d) ==
    /\ y \in 1..9999
    /\ m \in 1..12
    /\ d \in 1..DaysInMonth(y, m)

\* the calendar fields of a datetime
YearOfOrdinal(ord) ==
    CHOOSE y \in (ord \div 366)..(ord \div 365 + 1) :
        DaysBeforeYear(y) < ord /\ ord <= DaysBeforeYear(y + 1)

\* the month of the n-th day of year y
MonthOfDay(y, n) ==
    CHOOSE m \in 1..12 :
        DaysBeforeMonth(y, m) < n /\ n <= DaysBeforeMonth(y, m) + DaysInMonth(y, m)

YearOf(t) == YearOfOrdinal(t \div MinutesPerDay)

MonthOf(t) ==
    LET y == YearOf(t)
    IN  MonthOfDay(y, (t \div MinutesPerDay) - DaysBeforeYear(y))

DayOf(t) ==
    LET y == YearOf(t)
        n == (t \div MinutesPerDay) - DaysBeforeYear(y)
    IN  n - DaysBeforeMonth(y, MonthOfDay(y, n))

HourOf(t) == (t % MinutesPerDay) \div 60

MinuteOf(t) == t % 60

(***************************************************************************)
(* load_credentials: the two credential files.  files.airtable is          *)
(* "missing" (no secrets.env), "nokey" (no AIRTABLE_API_KEY line) or       *)
(* "key"; files.google is "missing", "ok" or "corrupt" (json.load raises). *)
(***************************************************************************)
load_credentials(f) ==
    LET airtable == IF f.airtable = "key"
                    THEN [airtable_token |-> "token"] ELSE EmptyDict
    IN  IF f.google = "corrupt" THEN Raise
        ELSE IF f.google = "ok"
             THEN Return(airtable @@ [google_token |-> "json"])
             ELSE Return(airtable)

(***************************************************************************)
(* get_airtable_deal_revenue.                                              *)
(* A JSON number is [num |-> n], a JSON string [str |-> s].  The text of a *)
(* date field is [kind |-> "iso", ymdhm |-> <<y, m, d, hh, mi>>,           *)
(* suffix |-> s] with s one of "", "Z", "+00:00"; [kind |-> "empty"] is    *)
(* the empty string and [kind |-> "garbage"] any other text.               *)
(***************************************************************************)
Num(n) == [num |-> n]

Str(s) == [str |-> s]

IsNumber(v) == "num" \in DOMAIN v

\* Python truthiness of a JSON number or string
Truthy(v) == IF IsNumber(v) THEN v.num # 0 ELSE v.str # ""

\* contract_date_str.replace('Z', '+00:00')
ReplaceZ(s) ==
    IF s.kind = "iso" /\ s.suffix = "Z"
    THEN [s EXCEPT !.suffix = "+00:00"] ELSE s

\* datetime.fromisoformat
fromisoformat(s) ==
    IF s.kind # "iso" THEN Raise
    ELSE IF s.suffix = "Z" THEN Raise
    ELSE IF ~ValidDate(s.ymdhm[1], s.ymdhm[2], s.ymdhm[3]) THEN Raise
    ELSE Return([t  |-> At(s.ymdhm[1], s.ymdhm[2], s.ymdhm[3],
                           s.ymdhm[4], s.ymdhm[5]),
                 tz |-> IF s.suffix = "" THEN "naive" ELSE "aware"])

\* a > b on datetimes: TypeError between a naive and an aware one
DatetimeGreater(a, b) ==
    IF a.tz # b.tz THEN Raise ELSE Return(a.t > b.t)

\* datetime.now() - timedelta(minutes = delta): a naive local datetime
NowMinus(now, delta) == [t |-> now - delta, tz |-> "naive"]

FallbackDealRevenue == [total_revenue |-> 162000, deal_count |-> 18, last_24h |-> 0]

NoTokenDealRevenue == [total_revenue |-> 0, deal_count |-> 0, last_24h |-> 0]

\* lines 78-85: the 24 hour bucket of one record; the bare except swallows
\* every exception raised inside
Last24hOfRecord(fields, revenue, cutoff_time, last_24h_revenue) ==
    IF "In Contract" \notin DOMAIN fields THEN last_24h_revenue
    ELSE IF fields["In Contract"].kind = "empty" THEN last_24h_revenue
    ELSE LET contract_date == fromisoformat(ReplaceZ(fields["In Contract"]))
         IN  IF contract_date.exc THEN last_24h_revenue
             ELSE LET newer == DatetimeGreater(contract_date.val, cutoff_time)
                  IN  IF newer.exc THEN last_24h_revenue
                      ELSE IF ~newer.val THEN last_24h_revenue
                      ELSE IF ~IsNumber(revenue) THEN last_24h_revenue
                      ELSE last_24h_revenue + revenue.num

\* lines 71-85: the loop over the records
RECURSIVE SumRecords(_, _, _, _, _)
SumRecords(records, i, cutoff_time, total_revenue, last_24h_revenue) ==
    IF i > Len(records)
    THEN Return([total_revenue |-> total_revenue,
                 deal_count |-> Len(records),
                 last_24h |-> last_24h_revenue])
    ELSE LET fields  == Get(records[i], "fields", EmptyDict)
             revenue == Get(fields, "Revenue", Num(0))
         IN  IF Truthy(revenue) /\ ~IsNumber(revenue) THEN Raise
             ELSE SumRecords(records, i + 1, cutoff_time,
                             IF Truthy(revenue) THEN total_revenue + revenue.num
                                                ELSE total_revenue,
                             Last24hOfRecord(fields, revenue, cutoff_time,
                                             last_24h_revenue))

\* lines 46-94: the body of the try block
DealRevenueBody(f, resp, now) ==
    LET credentials == load_credentials(f)
    IN  IF credentials.exc THEN Raise
        ELSE IF "airtable_token" \notin DOMAIN credentials.val
             THEN Return(NoTokenDealRevenue)
        ELSE IF resp.raised THEN Raise
        ELSE IF resp.status_code = 200
             THEN IF ~resp.json_ok THEN Raise
                  ELSE SumRecords(Get(resp.body, "records", <<>>), 1,
                                  NowMinus(now, 24 * 60), 0, 0)
        ELSE Return(FallbackDealRevenue)

\* the fetcher with an except handler that returns zeros instead of the
\* documented fallback
get_airtable_deal_revenue_ZerosOnError(f, resp, now) ==
    LET r == DealRevenueBody(f, resp, now)
    IN  IF r.exc THEN Return(NoTokenDealRevenue) ELSE r

get_airtable_deal_revenue(f, resp, now) ==
    LET r == DealRevenueBody(f, resp, now)
    IN  IF r.exc THEN Return(FallbackDealRevenue) ELSE r

(***************************************************************************)
(* Text: a string the code looks inside is a sequence of characters.       *)
(***************************************************************************)
Digits == <<"0", "1", "2", "3", "4", "5", "6", "7", "8", "9">>

IsDigit(c) == \E i \in 1..Len(Digits) : Digits[i] = c

DigitValue(c) == (CHOOSE i \in 1..Len(Digits) : Digits[i] = c) - 1

AllDigits(s) == \A i \in 1..Len(s) : IsDigit(s[i])

\* int(s) of a digit string
RECURSIVE DigitsValue(_)
DigitsValue(s) ==
    IF Len(s) = 0 THEN 0
    ELSE 10 * DigitsValue(SubSeq(s, 1, Len(s) - 1)) + DigitValue(s[Len(s)])

\* n as w digits, zero padded
RECURSIVE Pad(_, _)
Pad(n, w) ==
    IF w = 0 THEN <<>> ELSE Pad(n \div 10, w - 1) \o <<Digits[(n % 10) + 1]>>

\* the characters of timestamps in code point order
CharOrder == <<"-", "0", "1", "2", "3", "4", "5", "6", "7", "8", "9", ":", "T">>

Ord(c) == CHOOSE i \in 1..Len(CharOrder) : CharOrder[i] = c

CodePoints == [c \in {CharOrder[i] : i \in 1..Len(CharOrder)} |-> Ord(c)]

\* a < b on str
RECURSIVE StrLessFrom(_, _, _)
StrLessFrom(a, b, i) ==
    IF i > Len(b) THEN FALSE
    ELSE IF i > Len(a) THEN TRUE
    ELSE IF a[i] = b[i] THEN StrLessFrom(a, b, i + 1)
    ELSE CodePoints[a[i]] < CodePoints[b[i]]

StrLess(a, b) == StrLessFrom(a, b, 1)

\* datetime.isoformat(), to the minute
isoformat(t) ==
    LET y == YearOf(t)
        n == (t \div MinutesPerDay) - DaysBeforeYear(y)
        m == MonthOfDay(y, n)
        d == n - DaysBeforeMonth(y, m)
    IN  Pad(y, 4) \o <<"-">> \o Pad(m, 2) \o <<"-">> \o Pad(d, 2)
        \o <<"T">> \o Pad(HourOf(t), 2) \o <<":">> \o Pad(MinuteOf(t), 2)
        \o <<":", "0", "0">>

(***************************************************************************)
(* get_tiller_financial_data.  Amounts are in hundredths.                  *)
(***************************************************************************)
\* the positions of "/" in a text
Slashes(s) == {i \in 1..Len(s) : s[i] = "/"}

\* datetime.strptime(date_str, '%m/%d/%Y'): one or two digits, one or two
\* digits, exactly four digits, then the calendar check
strptime(date_str) ==
    IF Cardinality(Slashes(date_str)) # 2 THEN Raise
    ELSE LET i  == CHOOSE k \in Slashes(date_str) :
                       \A j \in Slashes(date_str) : k <= j
             j  == CHOOSE k \in Slashes(date_str) :
                       \A l \in Slashes(date_str) : l <= k
             mm == SubSeq(date_str, 1, i - 1)
             dd == SubSeq(date_str, i + 1, j - 1)
             yy == SubSeq(date_str, j + 1, Len(date_str))
         IN  IF ~(Len(mm) \in 1..2 /\ Len(dd) \in 1..2 /\ Len(yy) = 4) THEN Raise
             ELSE IF ~(AllDigits(mm) /\ AllDigits(dd) /\ AllDigits(yy)) THEN Raise
             ELSE IF DigitsValue(mm) \notin 1..12 \/ DigitsValue(dd) \notin 1..31
                  THEN Raise
             ELSE IF ~ValidDate(DigitsValue(yy), DigitsValue(mm), DigitsValue(dd))
                  THEN Raise
             ELSE Return(At(DigitsValue(yy), DigitsValue(mm), DigitsValue(dd), 0, 0))

\* float(text), in hundredths: an optional sign, digits, an optional point
\* with at most two more digits
float(text) ==
    LET body   == IF Len(text) > 0 /\ text[1] = "-"
                  THEN SubSeq(text, 2, Len(text)) ELSE text
        sign   == IF Len(text) > 0 /\ text[1] = "-" THEN -1 ELSE 1
        points == {i \in 1..Len(body) : body[i] = "."}
        whole  == IF points = {} THEN body
                  ELSE SubSeq(body, 1, (CHOOSE i \in points : TRUE) - 1)
        frac   == IF points = {} THEN <<>>
                  ELSE SubSeq(body, (CHOOSE i \in points : TRUE) + 1, Len(body))
    IN  IF Cardinality(points) > 1 THEN Raise
        ELSE IF Len(whole) + Len(frac) = 0 \/ Len(frac) > 2 THEN Raise
        ELSE IF ~(AllDigits(whole) /\ AllDigits(frac)) THEN Raise
        ELSE Return(sign * (100 * DigitsValue(whole)
                            + (IF Len(frac) = 1 THEN 10 ELSE 1) * DigitsValue(frac)))

\* lines 215-235: one row; <<>> when the row is skipped
TransactionsOfRow(row, cutoff_date) ==
    IF Len(row) < 6 THEN <<>>
    ELSE LET date_str == row[1]
             amount   == IF Len(row[3]) > 0 THEN float(row[3]) ELSE Return(0)
         IN  IF amount.exc THEN <<>>
             ELSE LET transaction_date == strptime(date_str)
                  IN  IF transaction_date.exc THEN <<>>
                      ELSE IF ~(transaction_date.val > cutoff_date) THEN <<>>
                      ELSE <<[date        |-> date_str,
                              amount      |-> amount.val,
                              description |-> row[2],
                              account     |-> row[4],
                              category    |-> row[5],
                              timestamp   |-> isoformat(transaction_date.val)]>>

\* lines 214-235: the loop over the rows lo..hi, in row order
RECURSIVE CollectTransactions(_, _, _, _)
CollectTransactions(data, lo, hi, cutoff_date) ==
    IF lo > hi THEN <<>>
    ELSE IF lo = hi THEN TransactionsOfRow(data[lo], cutoff_date)
    ELSE LET mid == (lo + hi) \div 2
         IN  CollectTransactions(data, lo, mid, cutoff_date)
             \o CollectTransactions(data, mid + 1, hi, cutoff_date)

\* the sort without reverse=True: oldest first
SortByTimestampAscending(transactions) ==
    LET n == Len(transactions)
        Precedes(j, i) ==
            IF transactions[j].timestamp = transactions[i].timestamp THEN j < i
            ELSE StrLess(transactions[j].timestamp, transactions[i].timestamp)
        position == SubSeq([i \in 1..n |->
                               Cardinality({j \in 1..n : Precedes(j, i)}) + 1], 1, n)
    IN  [p \in 1..n |-> transactions[CHOOSE i \in 1..n : position[i] = p]]

\* transactions.sort(key=lambda x: x['timestamp'], reverse=True): the sort is
\* stable, so an entry is preceded by the entries with a greater timestamp and
\* by the earlier entries with an equal one
SortByTimestampDescending(transactions) ==
    LET n == Len(transactions)
        Precedes(j, i) ==
            IF transactions[j].timestamp = transactions[i].timestamp THEN j < i
            ELSE StrLess(transactions[i].timestamp, transactions[j].timestamp)
        position == SubSeq([i \in 1..n |->
                               Cardinality({j \in 1..n : Precedes(j, i)}) + 1], 1, n)
    IN  [p \in 1..n |-> transactions[CHOOSE i \in 1..n : position[i] = p]]

MaxTransactions == 50

\* transactions[:50]
Truncate(transactions) ==
    SubSeq(transactions, 1,
           IF Len(transactions) < MaxTransactions THEN Len(transactions)
                                                  ELSE MaxTransactions)

\* timedelta(hours = h) before base_time, as isoformat
HoursBefore(base_time, h) == isoformat(base_time - 60 * h)

\* get_fallback_financial_data
get_fallback_financial_data(base_time) ==
    LET charges ==
          <<[amount |-> -8750, description |-> "Uber to Carlsbad Office",
             card |-> "Chase Sapphire", category |-> "Transportation",
             timestamp |-> HoursBefore(base_time, 0)],
            [amount |-> -274500, description |-> "Office Rent - LL Ventures",
             card |-> "Business Platinum", category |-> "Business",
             timestamp |-> HoursBefore(base_time, 2)],
            [amount |-> -12599, description |-> "Adobe Creative Suite",
             card |-> "Chase Sapphire", category |-> "Software",
             timestamp |-> HoursBefore(base_time, 4)],
            [amount |-> -145000, description |-> "Legal Fees - Andy Antiles Case",
             card |-> "Business Platinum", category |-> "Legal",
             timestamp |-> HoursBefore(base_time, 6)],
            [amount |-> -6799, description |-> "Tesla Supercharging",
             card |-> "Chase Sapphire", category |-> "Transportation",
             timestamp |-> HoursBefore(base_time, 8)],
            [amount |-> -320000, description |-> "Marketing Campaign - Facebook Ads",
             card |-> "Business Platinum", category |-> "Marketing",
             timestamp |-> HoursBefore(base_time, 10)]>>
        revenue ==
          <<[amount |-> 850000, description |-> "LL Ventures Deal - Detroit Property",
             source |-> "Business Account", timestamp |-> HoursBefore(base_time, 0)],
            [amount |-> 120000, description |-> "Consulting Payment - BlackBox Alchemist",
             source |-> "Chase Business", timestamp |-> HoursBefore(base_time, 3)],
            [amount |-> 85000, description |-> "Investment Dividend - Schwab Portfolio",
             source |-> "Schwab Account", timestamp |-> HoursBefore(base_time, 6)],
            [amount |-> 210000, description |-> "Course Revenue - Graystone Settlement",
             source |-> "Business Account", timestamp |-> HoursBefore(base_time, 9)]>>
    IN  [charges |-> charges, revenue |-> revenue, transactions |-> charges \o revenue]

\* lines 193-243: the body of the try block; token is the output of the
\* token helper, "" when it prints nothing
TillerBody(token, resp, now) ==
    IF token = "" THEN Return(get_fallback_financial_data(now))
    ELSE IF resp.raised THEN Raise
    ELSE IF resp.status_code = 200
         THEN IF ~resp.json_ok THEN Raise
              ELSE Return([transactions |->
                      Truncate(SortByTimestampDescending(
                          CollectTransactions(Get(resp.body, "values", <<>>), 1,
                                              Len(Get(resp.body, "values", <<>>)),
                                              now - 7 * MinutesPerDay)))])
    ELSE Return(get_fallback_financial_data(now))

get_tiller_financial_data(token, resp, now) ==
    LET r == TillerBody(token, resp, now)
    IN  IF r.exc THEN Return(get_fallback_financial_data(now)) ELSE r

(***************************************************************************)
(* get_assignee_for_task.                                                  *)
(***************************************************************************)
UpperCase == <<"A", "B", "C", "D", "E", "F", "G", "H", "I", "J", "K", "L", "M", "N",
    "O", "P", "Q", "R", "S", "T", "U", "V", "W", "X", "Y", "Z">>

LowerCase == <<"a", "b", "c", "d", "e", "f", "g", "h", "i", "j", "k", "l", "m", "n",
    "o", "p", "q", "r", "s", "t", "u", "v", "w", "x", "y", "z">>

\* str.lower()
lower(text) ==
    [i \in 1..Len(text) |->
        IF \E k \in 1..Len(UpperCase) : UpperCase[k] = text[i]
        THEN LowerCase[CHOOSE k \in 1..Len(UpperCase) : UpperCase[k] = text[i]]
        ELSE text[i]]

\* word in text
Contains(word, text) ==
    \E i \in 1..(Len(text) - Len(word) + 1) :
        SubSeq(text, i, i + Len(word) - 1) = word

RealEstateWords ==
    <<<<"z", "i", "l", "l", "o", "w">>,
      <<"r", "e", "a", "l", " ", "e", "s", "t", "a", "t", "e">>,
      <<"p", "r", "o", "p", "e", "r", "t", "y">>,
      <<"s", "e", "c", "t", "i", "o", "n", " ", "8">>>>

ContentWords ==
    <<<<"c", "o", "n", "t", "e", "n", "t">>,
      <<"w", "r", "i", "t", "e">>,
      <<"p", "o", "s", "t">>,
      <<"s", "o", "c", "i", "a", "l">>,
      <<"t", "w", "i", "t", "t", "e", "r">>,
      <<"i", "n", "s", "t", "a", "g", "r", "a", "m">>>>

AdminWords ==
    <<<<"a", "s", "a", "n", "a">>,
      <<"a", "d", "m", "i", "n">>,
      <<"m", "a", "n", "a", "g", "e">>,
      <<"o", "r", "g", "a", "n", "i", "z", "e">>,
      <<"p", "i", "p", "e", "l", "i", "n", "e">>>>

\* any(word in title_lower or word in description_lower for word in words)
AnyWordIn(words, title_lower, description_lower) ==
    \E k \in 1..Len(words) :
        Contains(words[k], title_lower) \/ Contains(words[k], description_lower)

\* the heuristic with the content check placed before the real-estate check
get_assignee_for_task_ContentFirst(t) ==
    LET title_lower       == lower(t.title)
        description_lower == lower(t.description)
    IN  IF AnyWordIn(ContentWords, title_lower, description_lower) THEN "Ghost"
        ELSE IF AnyWordIn(RealEstateWords, title_lower, description_lower)
             THEN "Zillow Bot"
        ELSE IF AnyWordIn(AdminWords, title_lower, description_lower) THEN "Admin"
        ELSE "Arthur"

get_assignee_for_task(t) ==
    LET title_lower       == lower(t.title)
        description_lower == lower(t.description)
    IN  IF AnyWordIn(RealEstateWords, title_lower, description_lower) THEN "Zillow Bot"
        ELSE IF AnyWordIn(ContentWords, title_lower, description_lower) THEN "Ghost"
        ELSE IF AnyWordIn(AdminWords, title_lower, description_lower) THEN "Admin"
        ELSE "Arthur"

(***************************************************************************)
(* get_real_tasks.  The board file is [state |-> "missing"],               *)
(* [state |-> "corrupt"] or [state |-> "ok", json |-> the parsed object].  *)
(***************************************************************************)
DescriptionLimit == 100

column_mapping ==
    ("backlog" :> "backlog") @@ ("in-progress" :> "in-progress")
    @@ ("recurring" :> "backlog") @@ ("done" :> "done")

\* line 148
TruncateDescription(description) ==
    IF Len(description) > DescriptionLimit
    THEN SubSeq(description, 1, DescriptionLimit) \o <<".", ".", ".">>
    ELSE description

\* line 153: task.get('activity', [{}])[-1].get('date', task['created'])
LastUpdateOf(t) ==
    LET activity == Get(t, "activity", <<EmptyDict>>)
    IN  IF Len(activity) = 0 THEN Raise
        ELSE Return(Get(activity[Len(activity)], "date", t.created))

\* lines 145-154
DashboardTask(t) ==
    LET lastUpdate == LastUpdateOf(t)
    IN  IF lastUpdate.exc THEN Raise
        ELSE Return([id          |-> t.id,
                     title       |-> t.title,
                     description |-> TruncateDescription(t.description),
                     column      |-> Get(column_mapping, t.column, "backlog"),
                     priority    |-> Get(t, "priority", "medium"),
                     assignee    |-> get_assignee_for_task(t),
                     created     |-> t.created,
                     lastUpdate  |-> lastUpdate.val])

\* a loader that never looks at the archived flag
IsArchived_Ignored(t) == FALSE

\* task.get('archived', False)
IsArchived(t) == Get(t, "archived", FALSE)

\* lines 135-155: the loop over the board tasks
RECURSIVE BoardTasks(_, _, _)
BoardTasks(board_tasks, i, acc) ==
    IF i > Len(board_tasks) THEN Return(acc)
    ELSE IF IsArchived(board_tasks[i]) THEN BoardTasks(board_tasks, i + 1, acc)
    ELSE LET dashboard_task == DashboardTask(board_tasks[i])
         IN  IF dashboard_task.exc THEN Raise
             ELSE BoardTasks(board_tasks, i + 1, Append(acc, dashboard_task.val))

netlify_project ==
    [id          |-> "task-netlify-001",
     title       |-> <<"O", "f", "f", "-", "M", "a", "r", "k", "e", "t", " ", "D", "e",
        "a", "l", "s", " ", "W", "e", "b", "s", "i", "t", "e">>,
     description |-> <<"F", "u", "n", "n", "e", "l", " ", "w", "e", "b", "s", "i", "t",
        "e", " ", "d", "e", "p", "l", "o", "y", "e", "d", " ", "t", "o",
        " ", "N", "e", "t", "l", "i", "f", "y", " ", "f", "o", "r", " ",
        "l", "e", "a", "d", " ", "g", "e", "n", "e", "r", "a", "t", "i",
        "o", "n", " ", "a", "n", "d", " ", "p", "r", "o", "p", "e", "r",
        "t", "y", " ", "a", "c", "q", "u", "i", "s", "i", "t", "i", "o",
        "n">>,
     column      |-> "done",
     priority    |-> "high",
     assignee    |-> "Arthur",
     created     |-> "2026-02-08",
     lastUpdate  |-> "2026-02-08T15:30:00"]

\* lines 131-170: the body of the try block
RealTasksBody(file) ==
    IF file.state # "ok" THEN Raise
    ELSE LET r == BoardTasks(Get(file.json, "tasks", <<>>), 1, <<>>)
         IN  IF r.exc THEN Raise ELSE Return(Append(r.val, netlify_project))

\* the loader without its try/except: a failure reaches the caller
get_real_tasks_Uncaught(file) == RealTasksBody(file)

get_real_tasks(file) ==
    LET r == RealTasksBody(file)
    IN  IF r.exc THEN Return(<<>>) ELSE r

(***************************************************************************)
(* get_agent_status and its three checks.                                  *)
(***************************************************************************)
\* check_zillow_monitor
check_zillow_monitor(now) == 6 <= HourOf(now) /\ HourOf(now) <= 18

\* lines 328-337: the body of the try block of check_asana_activity; without
\* a token the function falls through to its final return False
AsanaActivityBody(f, resp) ==
    LET credentials == load_credentials(f)
    IN  IF credentials.exc THEN Raise
        ELSE IF "airtable_token" \notin DOMAIN credentials.val THEN Return(FALSE)
        ELSE IF resp.raised THEN Raise
        ELSE IF ~resp.json_ok THEN Raise
        ELSE Return(Len(Get(resp.body, "records", <<>>)) > 0)

check_asana_activity(f, resp) ==
    LET r == AsanaActivityBody(f, resp)
    IN  IF r.exc THEN FALSE ELSE r.val

\* check_content_schedule: random.random() > 0.7, the random number in tenths
check_content_schedule(random_tenths) == random_tenths > 7

default_agents ==
    ("arthur"     :> [active |-> TRUE,  task |-> "Coordinating Operations"])
    @@ ("zillow-bot" :> [active |-> FALSE, task |-> "Monitoring New Listings"])
    @@ ("ghost"      :> [active |-> FALSE, task |-> "Preparing Content Queue"])
    @@ ("admin"      :> [active |-> TRUE,  task |-> "Managing Asana Pipeline"])

\* agents[name]['active'] = active, and the task when active
SetAgent(a, name, active, active_task) ==
    [a EXCEPT ![name] = [active |-> active,
                         task   |-> IF active THEN active_task ELSE a[name].task]]

\* lines 295-310: the body of the try block
AgentStatusBody(now, f, resp, random_tenths) ==
    Return(SetAgent(SetAgent(SetAgent(default_agents,
               "zillow-bot", check_zillow_monitor(now), "Scanning Detroit Properties"),
               "admin", check_asana_activity(f, resp), "Processing New Responses"),
               "ghost", check_content_schedule(random_tenths), "Writing Social Content"))

get_agent_status(now, f, resp, random_tenths) ==
    LET r == AgentStatusBody(now, f, resp, random_tenths)
    IN  IF r.exc THEN Return(default_agents) ELSE r

(***************************************************************************)
(* get_live_activities.                                                    *)
(***************************************************************************)
\* str(n) of a natural number
RECURSIVE FormatInt(_)
FormatInt(n) ==
    IF n < 10 THEN <<Digits[n + 1]>>
    ELSE FormatInt(n \div 10) \o <<Digits[(n % 10) + 1]>>

\* f'{n:,}' of a natural number
RECURSIVE FormatThousands(_)
FormatThousands(n) ==
    IF n < 1000 THEN FormatInt(n)
    ELSE FormatThousands(n \div 1000) \o <<",">> \o Pad(n % 1000, 3)

\* f'{n:,}' of an integer
FormatComma(n) == IF n < 0 THEN <<"-">> \o FormatThousands(-n) ELSE FormatThousands(n)

\* strftime('%I:%M %p')
strftime(t) ==
    Pad(((HourOf(t) + 11) % 12) + 1, 2) \o <<":">> \o Pad(MinuteOf(t), 2)
    \o <<" ">> \o (IF HourOf(t) < 12 THEN <<"A", "M">> ELSE <<"P", "M">>)

get_ghl_sms_stats == [today |-> 50, this_week |-> 350, this_month |-> 1500]

get_arthur_email_stats == [today |-> 8, this_week |-> 45, this_month |-> 180]

\* a description is its literal pieces and the characters of its numbers
RevenueDescription(deal_data) ==
    <<"Deal Revenue Tracker: $">> \o FormatComma(deal_data.total_revenue)
    \o <<" from ">> \o FormatInt(deal_data.deal_count) \o <<" deals">>

\* the offsets with those of the SMS and EMAIL entries exchanged
ActivityOffsets_Exchanged == <<0, 7, 3, 2, 5, 12, 18, 60, 2 * 60, 3 * 60, 4 * 60>>

\* lines 359-369: the minutes each entry lies before datetime.now()
ActivityOffsets == <<0, 3, 7, 2, 5, 12, 18, 60, 2 * 60, 3 * 60, 4 * 60>>

\* lines 358-370: type and description of the entries
RecentActivities(deal_data, sms_data, email_data) ==
    <<[type |-> "REVENUE", description |-> RevenueDescription(deal_data)],
      [type |-> "SMS",
       description |-> <<"SMS Operations: ">> \o FormatInt(sms_data.today)
                       \o <<" messages sent today">>],
      [type |-> "EMAIL",
       description |-> <<"Arthur Email: ">> \o FormatInt(email_data.today)
                       \o <<" emails processed today">>],
      [type |-> "SYSTEM",
       description |-> <<"Dashboard v2 updated with live Airtable integration">>],
      [type |-> "COORD", description |-> <<"Arthur coordinating 4 active agents">>],
      [type |-> "SCRAPE",
       description |-> <<"Zillow Bot found 2 new Section 8 listings">>],
      [type |-> "ADMIN",
       description |-> <<"Admin updated 3 Asana tasks to pre-approval">>],
      [type |-> "FINANCIAL", description |-> <<"Processed $8,500 LL Ventures revenue">>],
      [type |-> "CONTENT", description |-> <<"Ghost generated Twitter thread draft">>],
      [type |-> "OUTREACH",
       description |-> <<"14% response rate on Detroit agent outreach">>],
      [type |-> "NETLIFY",
       description |-> <<"Off-Market Deals website deployed successfully">>]>>

\* the k-th datetime.now() of the list construction: the clock shows now and
\* moves on by one minute after the tick-th read (never, when tick = 0)
ReadClock(now, tick, k) == IF tick # 0 /\ k > tick THEN now + 1 ELSE now

\* get_live_activities: the deal fetch is a call of its own, with its own
\* response
get_live_activities(f, resp, now, tick) ==
    LET deal_data == get_airtable_deal_revenue(f, resp, now)
    IN  IF deal_data.exc THEN Raise
        ELSE LET recent == RecentActivities(deal_data.val, get_ghl_sms_stats,
                                            get_arthur_email_stats)
             IN  Return([k \in 1..Len(recent) |->
                    [type        |-> recent[k].type,
                     description |-> recent[k].description,
                     timestamp   |-> isoformat(ReadClock(now, tick, k) - ActivityOffsets[k]),
                     time        |-> strftime(ReadClock(now, tick, k) - ActivityOffsets[k])]])

(***************************************************************************)
(* Inputs of the records API fetch.                                        *)
(***************************************************************************)
MaxRecords == 2

\* requests.get raised (transport error)
RaisedResponse == [raised |-> TRUE]

\* requests.get returned; json_ok is whether response.json() parses
HttpResponse(status_code, json_ok, body) ==
    [raised |-> FALSE, status_code |-> status_code, json_ok |-> json_ok,
     body |-> body]

Iso(y, m, d, hh, mi, suffix) ==
    [kind |-> "iso", ymdhm |-> <<y, m, d, hh, mi>>, suffix |-> suffix]

\* the fetch times used by the fetcher checks
Clocks == {At(2026, 2, 10, 9, 30), At(2026, 2, 11, 0, 0)}

ContractDates ==
    {Iso(2026, 2, 10, 8, 0, ""),       \* naive, in the last 24 hours
     Iso(2026, 2, 10, 0, 0, "Z"),      \* aware, in the last 24 hours
     Iso(2026, 2, 8, 12, 0, ""),       \* naive, older
     Iso(2026, 2, 12, 0, 0, ""),       \* naive, in the future
     Iso(2026, 2, 30, 0, 0, ""),       \* no such day
     [kind |-> "garbage"],
     [kind |-> "empty"]}

Revenues == {Num(0), Num(3), Num(5), Str("1500")}

FieldSets ==
    {EmptyDict}
    \cup {("Revenue" :> r) : r \in Revenues}
    \cup {("In Contract" :> d) : d \in ContractDates}
    \cup {("Revenue" :> r) @@ ("In Contract" :> d) :
              r \in Revenues, d \in ContractDates}

DealRecords == {[fields |-> f] : f \in FieldSets} \cup {[id |-> "rec0"]}

SeqsUpTo(S, n) == UNION {[1..k -> S] : k \in 0..n}

CredentialFiles ==
    [airtable : {"missing", "nokey", "key"}, google : {"missing", "ok", "corrupt"}]

GoodFiles == [airtable |-> "key", google |-> "ok"]

FailingResponses ==
    {RaisedResponse,
     HttpResponse(500, TRUE, EmptyDict),
     HttpResponse(404, FALSE, EmptyDict),
     HttpResponse(200, FALSE, EmptyDict)}

SampleRecords == <<[fields |-> ("Revenue" :> Num(5))
                               @@ ("In Contract" :> Iso(2026, 2, 10, 8, 0, ""))]>>

SmallResponses ==
    FailingResponses
    \cup {HttpResponse(200, TRUE, EmptyDict),
          HttpResponse(200, TRUE, [records |-> SampleRecords])}

DealResponses ==
    SmallResponses
    \cup {HttpResponse(200, TRUE, [records |-> rs]) :
              rs \in SeqsUpTo(DealRecords, MaxRecords)}

(***************************************************************************)
(* SpecDeal: one call of get_airtable_deal_revenue on every input.         *)
(***************************************************************************)
InitDeal ==
    /\ pc = "start"
    /\ clock \in Clocks
    /\ \/ files \in CredentialFiles /\ response \in SmallResponses
       \/ files = GoodFiles /\ response \in DealResponses
    /\ deal_revenue = Unset
    /\ IdleTiller /\ IdleTasks /\ IdleAssignee /\ IdleAgents /\ IdleSnapshot

FetchDealRevenue ==
    /\ pc = "start"
    /\ LET r == get_airtable_deal_revenue(files, response, clock)
       IN  IF r.exc
           THEN pc' = "crashed" /\ UNCHANGED deal_revenue
           ELSE pc' = "done" /\ deal_revenue' = r.val
    /\ UNCHANGED <<clock, files, response, token_result, sheet_response,
                   financial_data, board_file, tasks, task, assignee,
                   asana_response, random_value, agents, activities,
                   dashboard_data, output_file>>

NextDeal == FetchDealRevenue

SpecDeal == InitDeal /\ [][NextDeal]_vars

\* the response is a 200 whose body parses
Is200(resp) == ~resp.raised /\ resp.status_code = 200 /\ resp.json_ok

RecordsOf(resp) == Get(resp.body, "records", <<>>)

C2_WitnessNoToken ==
    /\ pc = "done"
    /\ files.airtable = "missing" /\ files.google = "ok"
    /\ deal_revenue.total_revenue = 0

\* the Revenue of a record as the claim reads it (0 when the field is absent)
RevenueOf(rec) ==
    LET fields == Get(rec, "fields", EmptyDict)
    IN  IF "Revenue" \in DOMAIN fields THEN fields["Revenue"].num ELSE 0

NumericRevenue(rec) ==
    LET fields == Get(rec, "fields", EmptyDict)
    IN  "Revenue" \in DOMAIN fields => IsNumber(fields["Revenue"])

LiveDealFetch ==
    /\ pc = "done"
    /\ files.airtable = "key" /\ files.google # "corrupt"
    /\ Is200(response)
    /\ \A i \in 1..Len(RecordsOf(response)) : NumericRevenue(RecordsOf(response)[i])

\* C4 as stated: on a 200 response total_revenue is the sum of Revenue over the
\* records returned, deal_count their number, and last_24h the sum of Revenue
\* over exactly the records whose contract date parses and lies within the 24
\* hours before the fetch time.
C4_AggregatesMatchRecords ==
    LET \* the contract date of a record is a valid timestamp inside the 24
        \* hours before the fetch time
        ContractedInLast24h(rec) ==
            LET fields == Get(rec, "fields", EmptyDict)
            IN  /\ "In Contract" \in DOMAIN fields
                /\ LET d == fields["In Contract"]
                   IN  /\ d.kind = "iso"
                       /\ ValidDate(d.ymdhm[1], d.ymdhm[2], d.ymdhm[3])
                       /\ At(d.ymdhm[1], d.ymdhm[2], d.ymdhm[3], d.ymdhm[4],
                             d.ymdhm[5]) > clock - 24 * 60
                       /\ At(d.ymdhm[1], d.ymdhm[2], d.ymdhm[3], d.ymdhm[4],
                             d.ymdhm[5]) <= clock
        RECURSIVE SumRevenue(_, _)
        SumRevenue(records, i) ==
            IF i > Len(records) THEN 0
            ELSE RevenueOf(records[i]) + SumRevenue(records, i + 1)
        RECURSIVE SumRecentRevenue(_, _)
        SumRecentRevenue(records, i) ==
            IF i > Len(records) THEN 0
            ELSE (IF ContractedInLast24h(records[i]) THEN RevenueOf(records[i]) ELSE 0)
                 + SumRecentRevenue(records, i + 1)
    IN  LiveDealFetch =>
            LET records == RecordsOf(response)
            IN  /\ deal_revenue.total_revenue = SumRevenue(records, 1)
                /\ deal_revenue.deal_count = Len(records)
                /\ deal_revenue.last_24h = SumRecentRevenue(records, 1)




(***************************************************************************)
(* Inputs of the spreadsheet fetch.  A row is a list of cells; the date    *)
(* and the amount cells are texts.                                         *)
(***************************************************************************)
MaxRows == 2

MaxPrefix == 1

SheetRows ==
    {
     \* dated 10 February
     <<<<"0", "2", "/", "1", "0", "/", "2", "0", "2", "6">>,
       "Coffee", <<"-", "8", "7", ".", "5", "0">>, "Chase Sapphire", "Software", "note">>,
     \* the same day again
     <<<<"0", "2", "/", "1", "0", "/", "2", "0", "2", "6">>,
       "Books", <<"5">>, "Chase Sapphire", "Software", "note">>,
     \* one digit month and day
     <<<<"2", "/", "9", "/", "2", "0", "2", "6">>,
       "Consulting", <<"1", "2", "0", "0">>, "Chase Sapphire", "Software", "note">>,
     \* empty amount; on the edge of the window
     <<<<"0", "2", "/", "0", "4", "/", "2", "0", "2", "6">>,
       "Refund", <<>>, "Chase Sapphire", "Software", "note">>,
     \* seven days back
     <<<<"0", "2", "/", "0", "3", "/", "2", "0", "2", "6">>,
       "Rent", <<"-", "2", "7", "4", "5", ".", "0", "0">>, "Chase Sapphire", "Software", "note">>,
     \* dated in the future
     <<<<"0", "2", "/", "2", "0", "/", "2", "0", "2", "6">>,
       "Scheduled", <<"-", "1", "0">>, "Chase Sapphire", "Software", "note">>,
     \* month 13
     <<<<"1", "3", "/", "0", "1", "/", "2", "0", "2", "6">>,
       "Bad month", <<"-", "1">>, "Chase Sapphire", "Software", "note">>,
     \* no 30 February
     <<<<"0", "2", "/", "3", "0", "/", "2", "0", "2", "6">>,
       "Bad day", <<"-", "1">>, "Chase Sapphire", "Software", "note">>,
     \* not month/day/year
     <<<<"2", "0", "2", "6", "-", "0", "2", "-", "0", "9">>,
       "Wrong format", <<"-", "1">>, "Chase Sapphire", "Software", "note">>,
     \* amount does not parse
     <<<<"0", "2", "/", "0", "9", "/", "2", "0", "2", "6">>,
       "Bad amount", <<"1", ",", "2", "0", "0">>, "Chase Sapphire", "Software", "note">>,
     \* five columns
     <<<<"0", "2", "/", "0", "9", "/", "2", "0", "2", "6">>,
       "Short", <<"-", "1">>, "Chase Sapphire", "Software">>}

FillerRowA ==
    <<<<"0", "2", "/", "0", "8", "/", "2", "0", "2", "6">>,
      "Subscription", <<"-", "9", ".", "9", "9">>, "Chase Sapphire", "Software", "note">>

FillerRowB ==
    <<<<"0", "2", "/", "0", "7", "/", "2", "0", "2", "6">>,
      "Parking", <<"-", "3">>, "Chase Sapphire", "Software", "note">>

FillerRows == {FillerRowA, FillerRowB}

Repeat(x, n) == [i \in 1..n |-> x]

\* sheets long enough for the truncation to act: a short prefix, then a
\* filler repeated around MaxTransactions times
LongSheets ==
    {prefix \o Repeat(f, n) :
        prefix \in SeqsUpTo(SheetRows, MaxPrefix),
        f \in FillerRows,
        n \in {MaxTransactions - 1, MaxTransactions + 1}}

Sheets == SeqsUpTo(SheetRows, MaxRows) \cup LongSheets

SheetResponses ==
    FailingResponses
    \cup {HttpResponse(200, TRUE, EmptyDict)}
    \cup {HttpResponse(200, TRUE, [values |-> rows]) : rows \in Sheets}

SmallSheetResponses ==
    FailingResponses
    \cup {HttpResponse(200, TRUE, [values |-> rows]) :
              rows \in SeqsUpTo(FillerRows, 2)}

Tokens == {"", "ya29.token"}

SampleSheet == <<FillerRowB, FillerRowA>>

(***************************************************************************)
(* SpecTiller: one call of get_tiller_financial_data on every input.       *)
(***************************************************************************)
InitTiller ==
    /\ pc = "start"
    /\ clock \in Clocks
    /\ \/ token_result \in Tokens /\ sheet_response \in SmallSheetResponses
       \/ token_result = "ya29.token" /\ sheet_response \in SheetResponses
    /\ financial_data = Unset
    /\ IdleDeal /\ IdleTasks /\ IdleAssignee /\ IdleAgents /\ IdleSnapshot

FetchTiller ==
    /\ pc = "start"
    /\ LET r == get_tiller_financial_data(token_result, sheet_response, clock)
       IN  IF r.exc
           THEN pc' = "crashed" /\ UNCHANGED financial_data
           ELSE pc' = "done" /\ financial_data' = r.val
    /\ UNCHANGED <<clock, files, response, deal_revenue, token_result,
                   sheet_response, board_file, tasks, task, assignee,
                   asana_response, random_value, agents, activities,
                   dashboard_data, output_file>>

NextTiller == FetchTiller

SpecTiller == InitTiller /\ [][NextTiller]_vars

LiveTillerFetch ==
    pc = "done" /\ token_result # "" /\ Is200(sheet_response)

RowsOf(resp) == Get(resp.body, "values", <<>>)

Later(a, b) == StrLess(b.timestamp, a.timestamp)

\* C5 as stated: live or fallback, the transactions list has at most 50
\* entries and each entry's timestamp is strictly later than that of the
\* entry after it.
C5_AtMost50StrictlyDescending ==
    pc = "done" =>
        LET tx == financial_data.transactions
        IN  /\ Len(tx) <= 50
            /\ \A i \in 1..(Len(tx) - 1) : Later(tx[i], tx[i + 1])

\* C5 amended: a live result has at most 50 entries, none earlier followed by
\* a later one (entries of the same day stay adjacent, so the order is not
\* strict); the fallback result is the 6 sample charges followed by the 4
\* sample revenues, each group strictly descending, the list as a whole
\* unsorted.
C5_LiveSortedFallbackGrouped ==
    pc = "done" =>
        LET tx == financial_data.transactions
        IN  IF LiveTillerFetch
            THEN /\ Len(tx) <= 50
                 /\ \A i \in 1..(Len(tx) - 1) : ~Later(tx[i + 1], tx[i])
            ELSE /\ Len(tx) = 10
                 /\ \A i \in 1..5 : Later(tx[i], tx[i + 1])
                 /\ \A i \in 7..9 : Later(tx[i], tx[i + 1])
                 /\ Later(tx[7], tx[6])

\* the truncation acted on a live result that holds two entries of one day
C5_Witness ==
    /\ LiveTillerFetch
    /\ Len(RowsOf(sheet_response)) > 50
    /\ Len(financial_data.transactions) = 50
    /\ \E i \in 1..49 :
           /\ financial_data.transactions[i].timestamp
                  = financial_data.transactions[i + 1].timestamp
           /\ Later(financial_data.transactions[1], financial_data.transactions[50])

\* C6 as stated: every transaction of a live result has a parsed date inside
\* the trailing 7 days (later than fetch time minus 7 days, not later than
\* fetch time), and rows with fewer than 6 columns or an unparseable amount
\* or date are skipped without aborting the batch.
C6_InsideTrailingWindow ==
    LiveTillerFetch =>
        LET tx   == financial_data.transactions
            rows == RowsOf(sheet_response)
            Bad(row) == \/ Len(row) < 6
                        \/ strptime(row[1]).exc
                        \/ (Len(row[3]) > 0 /\ float(row[3]).exc)
        IN  /\ \A i \in 1..Len(tx) :
                   /\ strptime(tx[i].date).val > clock - 7 * MinutesPerDay
                   /\ strptime(tx[i].date).val <= clock
            /\ \A i \in 1..Len(tx) :
                   \E k \in 1..Len(rows) : ~Bad(rows[k]) /\ rows[k][1] = tx[i].date
            /\ (Len(rows) <= 50 /\ \E k \in 1..Len(rows) :
                    /\ ~Bad(rows[k])
                    /\ strptime(rows[k][1]).val > clock - 7 * MinutesPerDay
                    /\ strptime(rows[k][1]).val <= clock)
                  => Len(tx) > 0

(***************************************************************************)
(* Inputs of the task loader.                                              *)
(***************************************************************************)
MaxTasks == 4

Text_WriteListing == <<"W", "r", "i", "t", "e", " ", "S", "e", "c", "t", "i", "o", "n", " ",
    "8", " ", "l", "i", "s", "t", "i", "n", "g", " ", "p", "o", "s", "t">>

Text_Organize == <<"O", "r", "g", "a", "n", "i", "z", "e", " ", "A", "s", "a", "n", "a">>

Text_Invoice == <<"S", "e", "n", "d", " ", "i", "n", "v", "o", "i", "c", "e">>

Text_Short == <<"s", "e", "e", " ", "n", "o", "t", "e", "s">>

\* a description of 101 characters
Text_Long == Repeat("x", DescriptionLimit + 1)

BoardTaskKinds ==
    {\* every field present, two activity entries
     [id |-> "task-1", title |-> Text_WriteListing, description |-> Text_Short,
      column |-> "in-progress", priority |-> "high", archived |-> FALSE,
      created |-> "2026-02-01",
      activity |-> <<[date |-> "2026-02-02", note |-> "created"],
                     [date |-> "2026-02-05", note |-> "moved"]>>],
     \* archived
     [id |-> "task-2", title |-> Text_Organize, description |-> Text_Short,
      column |-> "done", priority |-> "low", archived |-> TRUE,
      created |-> "2026-01-10",
      activity |-> <<[date |-> "2026-01-11", note |-> "done"]>>],
     \* no activity field, no priority, no archived flag
     [id |-> "task-3", title |-> Text_Organize, description |-> Text_Short,
      column |-> "recurring", created |-> "2026-01-20"],
     \* an empty activity list
     [id |-> "task-4", title |-> Text_Invoice, description |-> Text_Short,
      column |-> "backlog", priority |-> "medium", archived |-> FALSE,
      created |-> "2026-02-03", activity |-> <<>>],
     \* a long description, an unknown column, a last activity without date
     [id |-> "task-5", title |-> Text_Invoice, description |-> Text_Long,
      column |-> "review", created |-> "2026-02-04",
      activity |-> <<[date |-> "2026-02-06", note |-> "created"],
                     [note |-> "commented"]>>],
     \* archived, with an empty activity list
     [id |-> "task-6", title |-> Text_Invoice, description |-> Text_Short,
      column |-> "done", archived |-> TRUE, created |-> "2026-01-05",
      activity |-> <<>>]}

BoardFiles ==
    {[state |-> "missing"], [state |-> "corrupt"], [state |-> "ok", json |-> EmptyDict]}
    \cup {[state |-> "ok", json |-> [tasks |-> ts]] :
              ts \in SeqsUpTo(BoardTaskKinds, MaxTasks)}

(***************************************************************************)
(* SpecTasks: one call of get_real_tasks on every board file.              *)
(***************************************************************************)
InitTasks ==
    /\ pc = "start"
    /\ clock = At(2026, 2, 10, 9, 30)
    /\ board_file \in BoardFiles
    /\ tasks = <<>>
    /\ IdleDeal /\ IdleTiller /\ IdleAssignee /\ IdleAgents /\ IdleSnapshot

LoadTasks ==
    /\ pc = "start"
    /\ LET r == get_real_tasks(board_file)
       IN  IF r.exc
           THEN pc' = "crashed" /\ UNCHANGED tasks
           ELSE pc' = "done" /\ tasks' = r.val
    /\ UNCHANGED <<clock, files, response, deal_revenue, token_result,
                   sheet_response, financial_data, board_file, task, assignee,
                   asana_response, random_value, agents, activities,
                   dashboard_data, output_file>>

NextTasks == LoadTasks

SpecTasks == InitTasks /\ [][NextTasks]_vars

BoardLoaded == pc = "done" /\ board_file.state = "ok"

\* the board tasks whose archived flag is not true, in board order
NotArchived(file) ==
    LET Keep(t) == ~("archived" \in DOMAIN t /\ t.archived = TRUE)
    IN  SelectSeq(Get(file.json, "tasks", <<>>), Keep)

ArchivedIds(file) ==
    LET all == Get(file.json, "tasks", <<>>)
    IN  {all[i].id : i \in {k \in 1..Len(all) :
                               "archived" \in DOMAIN all[k] /\ all[k].archived = TRUE}}

HasEmptyActivity(t) == "activity" \in DOMAIN t /\ t.activity = <<>>

\* C3 as stated: for a board file that loads, the tasks list holds exactly one
\* entry per board task that is not archived, in board order, and nothing
\* else (3 open tasks and 1 archived task give 3 entries).
C3_ExactlyTheOpenTasks ==
    BoardLoaded =>
        LET open == NotArchived(board_file)
        IN  /\ Len(tasks) = Len(open)
            /\ \A k \in 1..Len(open) :
                   tasks[k].id = open[k].id /\ tasks[k].title = open[k].title

\* C3 amended: no archived task appears; when no open task has an empty
\* activity list the result is the open tasks in board order followed by the
\* fixed entry task-netlify-001 (3 open tasks and 1 archived task give 4
\* entries); when one has, the result is the empty list.
C3_OpenTasksThenNetlify ==
    BoardLoaded =>
        LET open == NotArchived(board_file)
        IN  /\ \A k \in 1..Len(tasks) : tasks[k].id \notin ArchivedIds(board_file)
            /\ IF \E k \in 1..Len(open) : HasEmptyActivity(open[k])
               THEN tasks = <<>>
               ELSE /\ Len(tasks) = Len(open) + 1
                    /\ \A k \in 1..Len(open) :
                           tasks[k].id = open[k].id /\ tasks[k].title = open[k].title
                    /\ tasks[Len(tasks)].id = "task-netlify-001"

\* 3 open tasks and 1 archived task
C3_Witness ==
    /\ BoardLoaded
    /\ Len(Get(board_file.json, "tasks", <<>>)) = 4
    /\ Len(NotArchived(board_file)) = 3
    /\ Len(tasks) = 4

\* C8 as stated: every open board task has an output entry whose lastUpdate
\* is the date of its last activity entry, or its creation date when it has no
\* activity (the field absent or an empty list); one task without activity
\* leaves the entries of the other tasks as they are.
C8_LastUpdateFallsBackToCreated ==
    LET ExpectedLastUpdate(t) ==
            IF "activity" \in DOMAIN t /\ Len(t.activity) > 0
               /\ "date" \in DOMAIN t.activity[Len(t.activity)]
            THEN t.activity[Len(t.activity)].date
            ELSE t.created
    IN  BoardLoaded =>
            LET open == NotArchived(board_file)
            IN  /\ Len(tasks) >= Len(open)
                /\ \A k \in 1..Len(open) :
                       /\ tasks[k].id = open[k].id
                       /\ tasks[k].lastUpdate = ExpectedLastUpdate(open[k])

(***************************************************************************)
(* SpecAssignee: get_assignee_for_task on titles and descriptions built    *)
(* from fragments.                                                         *)
(***************************************************************************)
MaxTitleFragments == 3

Fragments ==
    {<<"W", "r", "i", "t", "e", " ">>,
     <<"S", "e", "c", "t", "i", "o", "n", " ", "8", " ">>,
     <<"l", "i", "s", "t", "i", "n", "g", " ", "p", "o", "s", "t">>,
     <<"M", "a", "n", "a", "g", "e", " ">>,
     <<"F", "i", "x", " ", "b", "u", "g">>,
     <<"r", "e", "a", "l">>,
     <<" ", "e", "s", "t", "a", "t", "e">>}

RECURSIVE Join(_)
Join(parts) == IF Len(parts) = 0 THEN <<>> ELSE Head(parts) \o Join(Tail(parts))

Titles == {Join(parts) : parts \in SeqsUpTo(Fragments, MaxTitleFragments)}

Descriptions == {<<>>} \cup Fragments

InitAssignee ==
    /\ pc = "start"
    /\ clock = At(2026, 2, 10, 9, 30)
    /\ task \in [title : Titles, description : Descriptions]
    /\ assignee = ""
    /\ IdleDeal /\ IdleTiller /\ IdleTasks /\ IdleAgents /\ IdleSnapshot

Assign ==
    /\ pc = "start"
    /\ assignee' = get_assignee_for_task(task)
    /\ pc' = "done"
    /\ UNCHANGED <<clock, files, response, deal_revenue, token_result,
                   sheet_response, financial_data, board_file, tasks, task,
                   asana_response, random_value, agents, activities,
                   dashboard_data, output_file>>

NextAssignee == Assign

SpecAssignee == InitAssignee /\ [][NextAssignee]_vars

\* a keyword of the list occurs in the case-folded title or description
Mentions(words) ==
    \E k \in 1..Len(words) :
        \/ Contains(words[k], lower(task.title))
        \/ Contains(words[k], lower(task.description))

\* C7: the keyword sets are tried in the order real-estate, content,
\* admin/pipeline and the first one with a keyword in the case-folded title or
\* description decides: real-estate gives 'Zillow Bot' even when a content
\* keyword occurs too ('Write Section 8 listing post'), content without
\* real-estate gives 'Ghost' even when an admin keyword occurs too, and no
\* keyword at all gives 'Arthur'.
C7_FirstMatchingSetWins ==
    pc = "done" =>
        /\ Mentions(RealEstateWords) => assignee = "Zillow Bot"
        /\ (~Mentions(RealEstateWords) /\ Mentions(ContentWords)) => assignee = "Ghost"
        /\ (~Mentions(RealEstateWords) /\ ~Mentions(ContentWords)
              /\ Mentions(AdminWords)) => assignee = "Admin"
        /\ (~Mentions(RealEstateWords) /\ ~Mentions(ContentWords)
              /\ ~Mentions(AdminWords)) => assignee = "Arthur"
        /\ task.title = Text_WriteListing => assignee = "Zillow Bot"

C7_Witness ==
    /\ pc = "done"
    /\ task.title = Text_WriteListing
    /\ Mentions(RealEstateWords) /\ Mentions(ContentWords)
    /\ assignee = "Zillow Bot"

(***************************************************************************)
(* SpecActivities: one call of get_live_activities.                        *)
(***************************************************************************)
ActivityClocks ==
    {At(2026, 2, 10, 9, 30), At(2026, 2, 10, 0, 5), At(2026, 3, 1, 12, 2)}

InitActivities ==
    /\ pc = "start"
    /\ clock \in ActivityClocks
    /\ files \in CredentialFiles
    /\ response \in SmallResponses
    /\ deal_revenue = Unset
    /\ activities = <<>> /\ dashboard_data = Unset /\ output_file = Unset
    /\ IdleTiller /\ IdleTasks /\ IdleAssignee /\ IdleAgents

Synthesize ==
    /\ pc = "start"
    /\ \E tick \in 0..(Len(ActivityOffsets) - 1) :
           LET r == get_live_activities(files, response, clock, tick)
           IN  IF r.exc
               THEN pc' = "crashed" /\ UNCHANGED activities
               ELSE pc' = "done" /\ activities' = r.val
    /\ UNCHANGED <<clock, files, response, deal_revenue, token_result,
                   sheet_response, financial_data, board_file, tasks, task,
                   assignee, asana_response, random_value, agents,
                   dashboard_data, output_file>>

NextActivities == Synthesize

SpecActivities == InitActivities /\ [][NextActivities]_vars

\* entry k is not older than entry k + 1
NotOlder(k) == ~StrLess(activities[k].timestamp, activities[k + 1].timestamp)

\* C9 as stated: the list of get_live_activities is newest-first, no entry is
\* older than the entry after it.
C9_NewestFirst ==
    pc = "done" => \A k \in 1..(Len(activities) - 1) : NotOlder(k)

\* C9 amended: when the clock reads of one construction lie within a minute,
\* the three entries built from live metrics (REVENUE, SMS, EMAIL) are
\* newest-first and so are the eight canned entries after them, but the list
\* as a whole is not: EMAIL, 7 minutes back, precedes SYSTEM, 2 minutes back.
C9_NewestFirstWithinGroups ==
    pc = "done" =>
        /\ Len(activities) = 11
        /\ \A k \in 1..2 : NotOlder(k)
        /\ \A k \in 4..10 : NotOlder(k)
        /\ StrLess(activities[3].timestamp, activities[4].timestamp)

\* the clock moved during the construction, between EMAIL and SYSTEM
C9_Witness ==
    /\ pc = "done"
    /\ activities[3].type = "EMAIL" /\ activities[4].type = "SYSTEM"
    /\ activities[3].timestamp = isoformat(clock - 7)
    /\ activities[4].timestamp = isoformat(clock + 1 - 2)

(***************************************************************************)
(* Spec: one run of generate_dashboard_data.                               *)
(***************************************************************************)
PipelineFiles ==
    {GoodFiles, [airtable |-> "missing", google |-> "ok"],
     [airtable |-> "key", google |-> "corrupt"]}

PipelineResponses ==
    {RaisedResponse, HttpResponse(500, TRUE, EmptyDict),
     HttpResponse(200, TRUE, [records |-> SampleRecords])}

\* the token helper's output and the spreadsheet response
PipelineSheets ==
    {<<"", RaisedResponse>>,
     <<"ya29.token", RaisedResponse>>,
     <<"ya29.token", HttpResponse(500, TRUE, EmptyDict)>>,
     <<"ya29.token", HttpResponse(200, TRUE, [values |-> SampleSheet])>>}

PipelineBoardFiles ==
    {[state |-> "missing"], [state |-> "corrupt"],
     [state |-> "ok",
      json |-> [tasks |-> <<CHOOSE t \in BoardTaskKinds : t.id = "task-1",
                            CHOOSE t \in BoardTaskKinds : t.id = "task-2">>]]}

\* the recent-activity response and the random number, in tenths
PipelineAgentChecks ==
    {<<RaisedResponse, 2>>,
     <<HttpResponse(200, TRUE, [records |-> SampleRecords]), 9>>,
     <<HttpResponse(200, TRUE, EmptyDict), 2>>}

Sections == {"tasks", "financial", "agents", "activities", "metrics", "lastUpdated"}

Init ==
    /\ pc = "deal_revenue"
    /\ clock = At(2026, 2, 10, 9, 30)
    /\ files \in PipelineFiles
    /\ response = Unset /\ deal_revenue = Unset
    /\ IdleTiller /\ IdleTasks /\ IdleAssignee /\ IdleAgents /\ IdleSnapshot

\* line 386
CallDealRevenue ==
    /\ pc = "deal_revenue"
    /\ \E resp \in PipelineResponses :
           /\ response' = resp
           /\ LET r == get_airtable_deal_revenue(files, resp, clock)
              IN  IF r.exc
                  THEN pc' = "failed" /\ UNCHANGED deal_revenue
                  ELSE pc' = "financial" /\ deal_revenue' = r.val
    /\ UNCHANGED <<clock, files, token_result, sheet_response, financial_data,
                   board_file, tasks, task, assignee, asana_response,
                   random_value, agents, activities, dashboard_data, output_file>>

\* line 389
CallTiller ==
    /\ pc = "financial"
    /\ \E sheet \in PipelineSheets :
           /\ token_result' = sheet[1]
           /\ sheet_response' = sheet[2]
           /\ LET r == get_tiller_financial_data(sheet[1], sheet[2], clock)
              IN  IF r.exc
                  THEN pc' = "failed" /\ UNCHANGED financial_data
                  ELSE pc' = "tasks" /\ financial_data' = r.val
    /\ UNCHANGED <<clock, files, response, deal_revenue, board_file, tasks,
                   task, assignee, asana_response, random_value, agents,
                   activities, dashboard_data, output_file>>

\* line 392
CallRealTasks ==
    /\ pc = "tasks"
    /\ \E file \in PipelineBoardFiles :
           /\ board_file' = file
           /\ LET r == get_real_tasks(file)
              IN  IF r.exc
                  THEN pc' = "failed" /\ UNCHANGED tasks
                  ELSE pc' = "agents" /\ tasks' = r.val
    /\ UNCHANGED <<clock, files, response, deal_revenue, token_result,
                   sheet_response, financial_data, task, assignee,
                   asana_response, random_value, agents, activities,
                   dashboard_data, output_file>>

\* line 394
CallAgentStatus ==
    /\ pc = "agents"
    /\ \E check \in PipelineAgentChecks :
           /\ asana_response' = check[1]
           /\ random_value' = check[2]
           /\ LET r == get_agent_status(clock, files, check[1], check[2])
              IN  IF r.exc
                  THEN pc' = "failed" /\ UNCHANGED agents
                  ELSE pc' = "activities" /\ agents' = r.val
    /\ UNCHANGED <<clock, files, response, deal_revenue, token_result,
                   sheet_response, financial_data, board_file, tasks, task,
                   assignee, activities, dashboard_data, output_file>>

\* line 395: the second call of the records API, and the clock may move on
CallLiveActivities ==
    /\ pc = "activities"
    /\ \E resp \in PipelineResponses, tick \in {0, 3} :
           /\ response' = resp
           /\ clock' = ReadClock(clock, tick, Len(ActivityOffsets))
           /\ LET r == get_live_activities(files, resp, clock, tick)
              IN  IF r.exc
                  THEN pc' = "failed" /\ UNCHANGED activities
                  ELSE pc' = "assemble" /\ activities' = r.val
    /\ UNCHANGED <<files, deal_revenue, token_result, sheet_response,
                   financial_data, board_file, tasks, task, assignee,
                   asana_response, random_value, agents, dashboard_data,
                   output_file>>

\* lines 391-402
Assemble ==
    /\ pc = "assemble"
    /\ dashboard_data' =
           [tasks       |-> tasks,
            financial   |-> financial_data,
            agents      |-> agents,
            activities  |-> activities,
            metrics     |-> [deal_revenue |-> deal_revenue,
                             sms_stats    |-> get_ghl_sms_stats,
                             email_stats  |-> get_arthur_email_stats],
            lastUpdated |-> isoformat(clock)]
    /\ pc' = "write"
    /\ UNCHANGED <<clock, files, response, deal_revenue, token_result,
                   sheet_response, financial_data, board_file, tasks, task,
                   assignee, asana_response, random_value, agents, activities,
                   output_file>>

\* lines 405-411: the snapshot holds JSON values only, so the file holds the
\* snapshot; opening the file may fail
WriteSnapshot ==
    /\ pc = "write"
    /\ \E opened \in BOOLEAN :
           IF opened
           THEN pc' = "done" /\ output_file' = dashboard_data
           ELSE pc' = "write_failed" /\ UNCHANGED output_file
    /\ UNCHANGED <<clock, files, response, deal_revenue, token_result,
                   sheet_response, financial_data, board_file, tasks, task,
                   assignee, asana_response, random_value, agents, activities,
                   dashboard_data>>

Next ==
    \/ CallDealRevenue
    \/ CallTiller
    \/ CallRealTasks
    \/ CallAgentStatus
    \/ CallLiveActivities
    \/ Assemble
    \/ WriteSnapshot

Spec == Init /\ [][Next]_vars

Assembled == pc \in {"write", "done", "write_failed"}

\* C1: whatever the sources answer, no exception of a fetcher reaches the
\* assembler, and the run goes on until a snapshot with all six sections is
\* assembled: before that point a next step is always possible, and the steps
\* only move forward.
C1_AlwaysAssembles ==
    /\ pc # "failed"
    /\ Assembled \/ ENABLED Next
    /\ Assembled => DOMAIN dashboard_data = Sections

\* every source failed and the snapshot is assembled all the same
C1_Witness ==
    /\ Assembled
    /\ files.google = "corrupt"
    /\ token_result = ""
    /\ board_file.state = "corrupt"
    /\ asana_response.raised
    /\ response.raised
    /\ dashboard_data.tasks = <<>>
    /\ Len(dashboard_data.activities) = 11

\* C10 as stated: in one snapshot the revenue and the deal count shown by the
\* REVENUE activity are those of metrics.deal_revenue, whatever the two calls
\* of the records API answered.
C10_RevenueActivityMatchesMetrics ==
    Assembled =>
        /\ dashboard_data.activities[1].type = "REVENUE"
        /\ dashboard_data.activities[1].description
               = RevenueDescription(dashboard_data.metrics.deal_revenue)

====
